---- MODULE Spec2Model ----
(***************************************************************************)
(* Model of include/fplus/search.h (FunctionalPlus): predicate and value   *)
(* searches over a sequence, and exact sub-sequence search, overlapping    *)
(* and non-overlapping.                                                    *)
(*                                                                         *)
(* A container is a TLA+ sequence; an iterator is its 0-based offset from  *)
(* std::begin (size = std::end).  A pure unary predicate is the set of the *)
(* elements it accepts.  maybe<T> is a sequence of length 0 (nothing) or 1 *)
(* (just).  std::size_t arithmetic wraps modulo SizeMod.                   *)
(***************************************************************************)
EXTENDS Integers, Sequences, FiniteSets, TLC

\* ------------------------------------------------------------------ bounds
MaxLen == 4
MaxTokLen == 3
MaxElem == 1

Elems == 0 .. MaxElem
SeqsUpTo(n) == UNION { [1 .. k -> Elems] : k \in 0 .. n }
Containers == SeqsUpTo(MaxLen)
Tokens == SeqsUpTo(MaxTokLen)
Preds == SUBSET Elems

\* ------------------------------------------------------- std::size_t
SizeMod == 65536
SizeAdd(a, b) == (a + b) % SizeMod
SizeSub(a, b) == (a - b) % SizeMod

\* ------------------------------------------------ consumed collaborators
Nothing == << >>
Just(v) == << v >>
SizeT == 0 .. SizeMod - 1
Lift(f, m) == IF m = Nothing THEN Nothing ELSE Just(f[m[1]])
Reverse(s) == [i \in 1 .. Len(s) |-> s[Len(s) + 1 - i]]
size_of_cont(s) == Len(s)
EqualTo(x) == { x }

\* --------------------------------------------------- standard algorithms
RECURSIVE FindIfFrom(_, _, _)
FindIfFrom(p, s, it) ==
    IF it = Len(s) THEN it
    ELSE IF s[it + 1] \in p THEN it
    ELSE FindIfFrom(p, s, it + 1)

FindIf(p, s) == FindIfFrom(p, s, 0)

\* std::equal(first, last, std::begin(t)) on container s.  Reading s past
\* its end is undefined: any outcome is possible.
EqualOutcomes(s, first, last, t) ==
    IF last <= Len(s) /\ last - first <= Len(t)
    THEN { \A k \in 1 .. (last - first) : s[first + k] = t[k] }
    ELSE BOOLEAN

\* ------------------------------------------------- Element/Index search
find_first_by(p, s) ==
    LET it == FindIf(p, s)
    IN  IF it = Len(s) THEN Nothing ELSE Just(s[it + 1])

find_last_by(p, s) == find_first_by(p, Reverse(s))

find_first_idx_by_skip(p, s) ==
    LET it == FindIfFrom(p, s, IF Len(s) > 0 THEN 1 ELSE 0)
    IN  IF it = Len(s) THEN Nothing ELSE Just(it)

find_first_idx_by(p, s) ==
    LET it == FindIf(p, s)
    IN  IF it = Len(s) THEN Nothing ELSE Just(it)

find_last_idx_by_nolift(p, s) ==
    LET r == find_first_idx_by(p, Reverse(s))
    IN  Just(SizeSub(size_of_cont(s), SizeAdd(IF r = Nothing THEN 0 ELSE r[1], 1)))

find_last_idx_by_norev(p, s) ==
    LET calcRevIdx == [i \in SizeT |-> SizeSub(size_of_cont(s), SizeAdd(i, 1))]
    IN  Lift(calcRevIdx, find_first_idx_by(p, s))

find_last_idx_by_off(p, s) ==
    LET calcRevIdx == [i \in SizeT |-> SizeSub(size_of_cont(s), i)]
    IN  Lift(calcRevIdx, find_first_idx_by(p, Reverse(s)))

find_last_idx_by(p, s) ==
    LET calcRevIdx == [i \in SizeT |-> SizeSub(size_of_cont(s), SizeAdd(i, 1))]
    IN  Lift(calcRevIdx, find_first_idx_by(p, Reverse(s)))

find_first_idx(x, s) == find_first_idx_by(EqualTo(x), s)

find_last_idx(x, s) == find_last_idx_by(EqualTo(x), s)

\* --------------------------------------------- Multi-occurrence search
RECURSIVE FindAllIdxsByLoop_onmatch(_, _, _, _, _)
FindAllIdxsByLoop_onmatch(p, s, k, i, res) ==
    IF k > Len(s) THEN res
    ELSE IF s[k] \in p
         THEN FindAllIdxsByLoop_onmatch(p, s, k + 1, SizeAdd(i, 1), Append(res, i))
         ELSE FindAllIdxsByLoop_onmatch(p, s, k + 1, i, res)

RECURSIVE FindAllIdxsByLoop(_, _, _, _, _)
FindAllIdxsByLoop(p, s, k, i, res) ==
    IF k > Len(s) THEN res
    ELSE FindAllIdxsByLoop(p, s, k + 1, SizeAdd(i, 1),
                           IF s[k] \in p THEN Append(res, i) ELSE res)

find_all_idxs_by(p, s) == FindAllIdxsByLoop(p, s, 1, 0, << >>)

find_all_idxs_of(x, s) == find_all_idxs_by(EqualTo(x), s)

\* ---------------------------------------------------- Subsequence search
CheckAndPush(match, res, i) == IF match THEN Append(res, i) ELSE res

TokenTooLong_ge(t, s) == size_of_cont(t) >= size_of_cont(s)

TokenTooLong(t, s) == size_of_cont(t) > size_of_cont(s)

LastPossibleIdx_nosub(s, t) == size_of_cont(s)

LastPossibleIdx(s, t) == SizeSub(size_of_cont(s), size_of_cont(t))

KeepInstance_strict(res, token_size, i) ==
    res = << >> \/ SizeAdd(res[Len(res)], token_size) < i

KeepInstance_always(res, token_size, i) == TRUE

KeepInstance(res, token_size, i) ==
    res = << >> \/ SizeAdd(res[Len(res)], token_size) <= i

RECURSIVE NonOverlappingLoop(_, _, _, _)
NonOverlappingLoop(ov, k, token_size, res) ==
    IF k > Len(ov) THEN res
    ELSE NonOverlappingLoop(ov, k + 1, token_size,
            IF KeepInstance(res, token_size, ov[k])
            THEN Append(res, ov[k]) ELSE res)

NonOverlapping(ov, token_size) == NonOverlappingLoop(ov, 1, token_size, << >>)

\* ------------------------------------------------------------------ state
VARIABLES
    pc,                 \* "idle", "scan" (inside find_all_instances_of), "done"
    op,                 \* the function called
    xs, token, pred, val, \* its arguments (unused ones keep their defaults)
    ret,                \* the returned maybe / container
    itInBegin, itInEnd, idx, result, last_possible_idx,
                        \* locals of find_all_instances_of
    overlapping_instances, \* local of find_all_instances_of_non_overlapping
    loop_checked,       \* history: positions compared inside the while loop
    final_checked,      \* history: positions compared after the loop
    ub                  \* history: an undefined operation was executed

args == << op, xs, token, pred, val >>
locals == << itInBegin, itInEnd, idx, result, last_possible_idx,
             overlapping_instances, loop_checked, final_checked, ub >>
vars == << pc, ret, args, locals >>

NoToken == << >>
NoPred == {}

Init ==
    /\ pc = "idle"
    /\ op = "none"
    /\ xs = << >>
    /\ token = NoToken
    /\ pred = NoPred
    /\ val = 0
    /\ ret = << >>
    /\ itInBegin = 0
    /\ itInEnd = 0
    /\ idx = 0
    /\ result = << >>
    /\ last_possible_idx = 0
    /\ overlapping_instances = << >>
    /\ loop_checked = << >>
    /\ final_checked = << >>
    /\ ub = FALSE

\* A call that runs to its return in one step.
Call(o, s, t, p, v, r) ==
    /\ pc = "idle"
    /\ pc' = "done"
    /\ op' = o
    /\ xs' = s
    /\ token' = t
    /\ pred' = p
    /\ val' = v
    /\ ret' = r
    /\ UNCHANGED locals

FindFirstBy ==
    /\ pc = "idle"
    /\ \E p \in Preds, s \in Containers :
           Call("find_first_by", s, NoToken, p, 0, find_first_by(p, s))

FindLastBy ==
    /\ pc = "idle"
    /\ \E p \in Preds, s \in Containers :
           Call("find_last_by", s, NoToken, p, 0, find_last_by(p, s))

FindFirstIdxBy ==
    /\ pc = "idle"
    /\ \E p \in Preds, s \in Containers :
           Call("find_first_idx_by", s, NoToken, p, 0, find_first_idx_by(p, s))

FindLastIdxBy ==
    /\ pc = "idle"
    /\ \E p \in Preds, s \in Containers :
           Call("find_last_idx_by", s, NoToken, p, 0, find_last_idx_by(p, s))

FindFirstIdx ==
    /\ pc = "idle"
    /\ \E v \in Elems, s \in Containers :
           Call("find_first_idx", s, NoToken, NoPred, v, find_first_idx(v, s))

FindLastIdx ==
    /\ pc = "idle"
    /\ \E v \in Elems, s \in Containers :
           Call("find_last_idx", s, NoToken, NoPred, v, find_last_idx(v, s))

FindAllIdxsBy ==
    /\ pc = "idle"
    /\ \E p \in Preds, s \in Containers :
           Call("find_all_idxs_by", s, NoToken, p, 0, find_all_idxs_by(p, s))

FindAllIdxsOf ==
    /\ pc = "idle"
    /\ \E v \in Elems, s \in Containers :
           Call("find_all_idxs_of", s, NoToken, NoPred, v, find_all_idxs_of(v, s))

\* What the caller of the scan returns once it has the overlapping result.
Finish(o, ov, t) ==
    IF o = "find_all_instances_of_non_overlapping"
    THEN NonOverlapping(ov, size_of_cont(t))
    ELSE ov

\* Entry of find_all_instances_of (called directly or from
\* find_all_instances_of_non_overlapping): the early return, or the set-up
\* of the scan.
Enter(o, t, s) ==
    /\ pc = "idle"
    /\ op' = o
    /\ xs' = s
    /\ token' = t
    /\ UNCHANGED << pred, val, loop_checked, final_checked >>
    /\ IF TokenTooLong(t, s)
       THEN /\ pc' = "done"
            /\ ret' = Finish(o, << >>, t)
            /\ UNCHANGED << itInBegin, itInEnd, idx, result,
                            last_possible_idx, overlapping_instances, ub >>
       ELSE /\ pc' = "scan"
            /\ itInBegin' = 0
            /\ itInEnd' = size_of_cont(t)
            /\ idx' = 0
            /\ result' = << >>
            /\ last_possible_idx' = LastPossibleIdx(s, t)
            \* std::advance(itInEnd, size(token)) past std::end(xs) is undefined
            /\ ub' = (size_of_cont(t) > size_of_cont(s))
            /\ UNCHANGED << ret, overlapping_instances >>

FindAllInstancesOf ==
    /\ pc = "idle"
    /\ \E t \in Tokens, s \in Containers :
           Enter("find_all_instances_of", t, s)

FindAllInstancesOfNonOverlapping ==
    /\ pc = "idle"
    /\ \E t \in Tokens, s \in Containers :
           Enter("find_all_instances_of_non_overlapping", t, s)

\* One iteration of `while (idx != last_possible_idx)`.
ScanStep ==
    /\ pc = "scan"
    /\ idx # last_possible_idx
    /\ \E m \in EqualOutcomes(xs, itInBegin, itInEnd, token) :
           result' = CheckAndPush(m, result, idx)
    /\ itInBegin' = itInBegin + 1
    /\ itInEnd' = itInEnd + 1
    /\ idx' = SizeAdd(idx, 1)
    /\ loop_checked' = Append(loop_checked, idx)
    /\ ub' = (ub \/ itInEnd >= Len(xs))
    /\ UNCHANGED << pc, ret, args, last_possible_idx, overlapping_instances,
                    final_checked >>

FinalCheckAndPush_skip(m, res, i) == res

FinalCheckAndPush(m, res, i) == CheckAndPush(m, res, i)

\* Loop exit: the check_and_push after the loop, and the return.
ScanExit ==
    /\ pc = "scan"
    /\ idx = last_possible_idx
    /\ \E m \in EqualOutcomes(xs, itInBegin, itInEnd, token) :
           /\ result' = FinalCheckAndPush(m, result, idx)
           /\ ret' = Finish(op, result', token)
           /\ overlapping_instances' =
                  IF op = "find_all_instances_of_non_overlapping"
                  THEN result' ELSE overlapping_instances
    /\ final_checked' = Append(final_checked, idx)
    /\ ub' = (ub \/ itInEnd > Len(xs))
    /\ pc' = "done"
    /\ UNCHANGED << args, itInBegin, itInEnd, idx, last_possible_idx,
                    loop_checked >>

Next ==
    \/ FindFirstBy
    \/ FindLastBy
    \/ FindFirstIdxBy
    \/ FindLastIdxBy
    \/ FindFirstIdx
    \/ FindLastIdx
    \/ FindAllIdxsBy
    \/ FindAllIdxsOf
    \/ FindAllInstancesOf
    \/ FindAllInstancesOfNonOverlapping
    \/ ScanStep
    \/ ScanExit

Spec == Init /\ [][Next]_vars

\* The scan is straight-line code: once entered, it keeps running.
FairSpec == Spec /\ WF_vars(ScanStep) /\ WF_vars(ScanExit)

\* ------------------------------------------------------------ properties
Done(o) == pc = "done" /\ op = o

Range(q) == { q[k] : k \in 1 .. Len(q) }
StrictlyAscending(q) == \A k \in 1 .. Len(q) - 1 : q[k] < q[k + 1]
MinOf(S) == CHOOSE m \in S : \A n \in S : m <= n
MaxOf(S) == CHOOSE m \in S : \A n \in S : n <= m

\* Indices of the elements of s accepted by p.
SatIdx(p, s) == { i \in 0 .. Len(s) - 1 : s[i + 1] \in p }

\* Start positions at which t occurs in s.
Matches(t, s) ==
    { i \in 0 .. Len(s) - Len(t) :
        \A k \in 1 .. Len(t) : s[i + k] = t[k] }

TokenOps == { "find_all_instances_of", "find_all_instances_of_non_overlapping" }
MaybeIdxOps == { "find_first_idx_by", "find_last_idx_by",
                 "find_first_idx", "find_last_idx" }
IdxListOps == { "find_all_idxs_by", "find_all_idxs_of" } \cup TokenOps

\* C1: find_first_idx_by(p, xs) is Nothing iff no element of xs satisfies p;
\* otherwise it holds the smallest index i with p(xs[i]).
C1_FirstIdxIsSmallest ==
    Done("find_first_idx_by") =>
        LET S == SatIdx(pred, xs)
        IN  /\ (ret = Nothing) <=> (S = {})
            /\ S # {} => ret = Just(MinOf(S))

C1_Witness ==
    /\ Done("find_first_idx_by")
    /\ ret = Just(2)
    /\ Cardinality(SatIdx(pred, xs)) >= 2

\* C2: find_last_idx_by(p, xs) holds the largest index i with p(xs[i]), or is
\* Nothing when no element satisfies p; it equals find_first_idx_by(p,
\* reverse(xs)) remapped by size(xs) - (i + 1), and a Nothing from the
\* reversed search passes through without remapping.
C2_LastIdxIsLargest ==
    Done("find_last_idx_by") =>
        LET S == SatIdx(pred, xs)
            r == find_first_idx_by(pred, Reverse(xs))
        IN  /\ S = {} => ret = Nothing
            /\ S # {} => ret = Just(MaxOf(S))
            /\ r = Nothing => ret = Nothing
            /\ r # Nothing => ret = Just(Len(xs) - (r[1] + 1))

C2_Witness ==
    /\ Done("find_last_idx_by")
    /\ Len(xs) = 4
    /\ ret = Just(1)
    /\ Cardinality(SatIdx(pred, xs)) = 2

\* C3: find_all_instances_of(token, xs) returns exactly the start indices in
\* [0, size(xs) - size(token)] where token occurs in xs, ascending, each
\* once, overlapping occurrences included; empty when the token is longer
\* than xs.
C3_AllInstancesExact ==
    Done("find_all_instances_of") =>
        /\ StrictlyAscending(ret)
        /\ Range(ret) = Matches(token, xs)
        /\ Len(token) > Len(xs) => ret = << >>

C3_Witness ==
    /\ Done("find_all_instances_of")
    /\ Len(token) = 2
    /\ ret = << 0, 1, 2 >>

\* C4: consecutive entries a, b of find_all_instances_of_non_overlapping(token,
\* xs) satisfy b >= a + size(token).
C4_NonOverlapping ==
    Done("find_all_instances_of_non_overlapping") =>
        \A k \in 1 .. Len(ret) - 1 : ret[k + 1] >= ret[k] + Len(token)

C4_Witness ==
    /\ Done("find_all_instances_of_non_overlapping")
    /\ Len(token) = 2
    /\ ret = << 0, 2 >>
    /\ overlapping_instances = << 0, 1, 2 >>

\* C5: find_all_instances_of_non_overlapping(token, xs) is the leftmost-greedy
\* selection over the ascending result of find_all_instances_of(token, xs):
\* the first match is kept, a later match is kept iff it starts at or after
\* the previously kept start + size(token), and every kept index is an
\* overlapping match.
C5_LeftmostGreedy ==
    Done("find_all_instances_of_non_overlapping") =>
        LET ov == overlapping_instances
            kept == Range(ret)
            LastKeptBefore(k) == MaxOf({ ov[j] : j \in 1 .. k - 1 } \cap kept)
        IN  /\ StrictlyAscending(ov)
            /\ Range(ov) = Matches(token, xs)
            /\ StrictlyAscending(ret)
            /\ kept \subseteq Range(ov)
            /\ ov # << >> => (ret # << >> /\ ret[1] = ov[1])
            /\ \A k \in 2 .. Len(ov) :
                   (ov[k] \in kept) <=> (ov[k] >= LastKeptBefore(k) + Len(token))

C5_Witness ==
    /\ Done("find_all_instances_of_non_overlapping")
    /\ Len(token) = 1
    /\ overlapping_instances = << 0, 1, 3 >>
    /\ ret = << 0, 1, 3 >>

\* C6: find_all_idxs_by(p, xs) returns the indices i with p(xs[i]) in
\* strictly increasing order, and as many of them as xs has elements
\* satisfying p.
C6_AllIdxsBy ==
    Done("find_all_idxs_by") =>
        /\ StrictlyAscending(ret)
        /\ Range(ret) = SatIdx(pred, xs)
        /\ Len(ret) = Cardinality(SatIdx(pred, xs))

C6_Witness ==
    /\ Done("find_all_idxs_by")
    /\ ret = << 1, 3 >>
    /\ Len(xs) = 4

\* Every index a finished search reports is below `limit`.
IndicesBelow(limit) == \A i \in Range(ret) : i < limit

\* C7 (as stated): every index produced by any search operation is strictly
\* less than size(xs).
C7_Original ==
    (pc = "done" /\ op \in MaybeIdxOps \cup IdxListOps) => IndicesBelow(Len(xs))

\* C7 (amended): every index produced by a search is strictly less than
\* size(xs), except that the two sub-sequence searches called with an empty
\* token report every position up to and including size(xs); absence is an
\* empty maybe or an empty container.
C7_IndexInRange ==
    (pc = "done" /\ op \in MaybeIdxOps \cup IdxListOps) =>
        /\ (op \in MaybeIdxOps) => Len(ret) <= 1
        /\ IF op \in TokenOps /\ token = << >>
           THEN Range(ret) = 0 .. Len(xs)
           ELSE IndicesBelow(Len(xs))

C7_Witness ==
    /\ Done("find_last_idx_by")
    /\ Len(xs) = 4
    /\ ret = Just(3)

\* C8: with an empty token, find_all_instances_of reports every position in
\* [0, size(xs)], size(xs) itself included, that last position being the
\* one checked after the scan loop has ended.
C8_EmptyTokenMatchesEverywhere ==
    (Done("find_all_instances_of") /\ token = << >>) =>
        /\ ret = [k \in 1 .. Len(xs) + 1 |-> k - 1]
        /\ loop_checked = [k \in 1 .. Len(xs) |-> k - 1]
        /\ final_checked = << Len(xs) >>

C8_Witness ==
    /\ Done("find_all_instances_of")
    /\ token = << >>
    /\ Len(xs) = 3
    /\ ret = << 0, 1, 2, 3 >>

\* C9: on an empty xs the four find_first/last(_idx)_by functions return
\* Nothing and find_all_idxs_by returns an empty container; an empty xs, a
\* token longer than xs and an empty token are all handled without any
\* undefined step, and the call returns a container of positions.
C9_EdgeCasesReturnNormally ==
    /\ (pc = "done" /\ xs = << >>
          /\ op \in { "find_first_by", "find_last_by",
                      "find_first_idx_by", "find_last_idx_by" })
       => ret = Nothing
    /\ (Done("find_all_idxs_by") /\ xs = << >>) => ret = << >>
    /\ (op \in TokenOps
          /\ (xs = << >> \/ Len(token) > Len(xs) \/ token = << >>))
       => /\ ~ub
          /\ pc = "done" => Range(ret) \subseteq 0 .. Len(xs)

C9_Witness ==
    /\ Done("find_last_idx_by")
    /\ xs = << >>
    /\ pred = Elems
    /\ ret = Nothing

\* State of the scan of find_all_instances_of: bounds of idx and of the
\* window, and the positions checked so far.
ScanInv ==
    (op \in TokenOps /\ Len(token) <= Len(xs) /\ pc \in { "scan", "done" }) =>
        /\ last_possible_idx = Len(xs) - Len(token)
        /\ 0 <= idx /\ idx <= last_possible_idx
        /\ itInBegin = idx
        /\ itInEnd = idx + Len(token)
        /\ itInEnd <= Len(xs)
        /\ ~ub
        /\ loop_checked = [k \in 1 .. idx |-> k - 1]
        /\ pc = "scan" => final_checked = << >>
        /\ pc = "done" => (idx = last_possible_idx
                           /\ final_checked = << last_possible_idx >>)

\* C10: throughout the scan of find_all_instances_of, 0 <= idx <=
\* last_possible_idx = size(xs) - size(token), the window is [idx, idx +
\* size(token)) and ends within xs, the subtraction does not wrap, and the
\* loop ends with idx = last_possible_idx after each candidate position was
\* checked exactly once.
C10_ScanBoundedAndTerminates ==
    /\ []ScanInv
    /\ (pc = "scan") ~> (pc = "done" /\ idx = last_possible_idx)

C10_Witness ==
    /\ Done("find_all_instances_of")
    /\ Len(token) = 2
    /\ Len(xs) = 4
    /\ loop_checked = << 0, 1 >>
    /\ final_checked = << 2 >>

====
